---- MODULE Spec2Model ----
(***************************************************************************)
(* State-machine model of pyiron's LAMMPS potential layer                  *)
(* (pyiron/lammps/potential.py) and of the interactive Murnaghan job       *)
(* (pyiron/atomistics/master/murninterface.py).                            *)
(*                                                                         *)
(* Python strings are sequences of one-character strings, so that          *)
(* str.split(), str.split(" ") and " ".join() are computed, not assumed.   *)
(* Python's None is the empty tuple and a present value v is <<v>>.        *)
(* Python list indices are kept 0-based where the code compares them       *)
(* (i_line > -1).                                                          *)
(***************************************************************************)
EXTENDS Integers, Sequences, FiniteSets, TLC

VARIABLES
    dataset,    \* LammpsPotential._dataset: sequence of [Parameter, Value]
    df,         \* LammpsPotential._df: None or <<rows>>
    call,       \* the last call made and its arguments
    ret,        \* what the last call returned or raised
    fs,         \* Settings.resource_paths and the paths that exist on disk
    potfile,    \* LammpsPotentialFile: _selected_atoms and _default_df
    pc,         \* MurnaghanInt: where the job is in run_if_interactive
    murn,       \* MurnaghanInt: its fields
    ref,        \* MurnaghanInt.ref_job, the interactive reference job
    calls       \* MurnaghanInt: the calls made to collaborators, in order

vars == <<dataset, df, call, ret, fs, potfile, pc, murn, ref, calls>>

potentialVars == <<dataset, df, call, ret>>
settingsVars == <<fs, potfile>>
murnVars == <<pc, murn, ref, calls>>

None == <<>>
Some(v) == <<v>>

\* ------------------------------------------------------------------------
\* Bounds of the model
\* ------------------------------------------------------------------------
MaxLines == 2        \* lines of a parameter table
MaxKeyWords == 2     \* words of a key passed to get
MaxWords == 3        \* words of a value, and of a key, in the multi-word study

\* ------------------------------------------------------------------------
\* Python string operations used by potential.py
\* ------------------------------------------------------------------------
SP == " "

RECURSIVE SplitSp(_)
\* s.split(" "): cut at every single blank, empty pieces kept
SplitSp(s) ==
    IF \A i \in 1..Len(s) : s[i] # SP
    THEN <<s>>
    ELSE LET k == CHOOSE i \in 1..Len(s) :
                      s[i] = SP /\ \A j \in 1..(i - 1) : s[j] # SP
         IN  <<SubSeq(s, 1, k - 1)>> \o SplitSp(SubSeq(s, k + 1, Len(s)))

NonEmptyWord(w) == Len(w) > 0

\* s.split(): cut at runs of blanks, no empty pieces
SplitWs(s) == SelectSeq(SplitSp(s), NonEmptyWord)

RECURSIVE JoinSp(_)
\* " ".join(ws)
JoinSp(ws) ==
    IF Len(ws) = 0 THEN <<>>
    ELSE IF Len(ws) = 1 THEN ws[1]
    ELSE ws[1] \o <<SP>> \o JoinSp(Tail(ws))

RECURSIVE LStrip(_)
LStrip(s) == IF Len(s) > 0 /\ s[1] = SP THEN LStrip(Tail(s)) ELSE s

RECURSIVE RStrip(_)
RStrip(s) ==
    IF Len(s) > 0 /\ s[Len(s)] = SP THEN RStrip(SubSeq(s, 1, Len(s) - 1)) ELSE s

\* sel.strip()
Strip(s) == LStrip(RStrip(s))

Digits == {"0", "1", "2", "3", "4", "5", "6", "7", "8", "9"}

PyStr(s) == [type |-> "str", v |-> s]
PyInt(s) == [type |-> "int", v |-> s]

\* literal_eval(val) with the except clause and the callable test of get:
\* a decimal integer literal evaluates to an int, every other string of the
\* model's alphabet (words, several words, the empty string) raises
\* ValueError or SyntaxError and val itself is kept.  Blanks after the
\* literal are accepted; blanks before it are stripped by Python >= 3.10 and
\* are an IndentationError (a SyntaxError) before, hence lstrips.
LiteralEval(val, lstrips) ==
    LET body == RStrip(IF lstrips THEN LStrip(val) ELSE val)
        isInt == /\ Len(body) > 0
                 /\ \A i \in 1..Len(body) : body[i] \in Digits
                 /\ (body[1] = "0" => \A i \in 1..Len(body) : body[i] = "0")
    IN  IF isInt THEN PyInt(body) ELSE PyStr(val)

\* ------------------------------------------------------------------------
\* LammpsPotential._find_line
\* ------------------------------------------------------------------------
Indices(d) == [i \in 1..Len(d) |-> i]

\* lines 176-189: does line i_sel (1-based) survive the loop body
MultiWordMatch(d, multiple_key, i_sel) ==
    LET key_length == Len(multiple_key)
        values == SplitWs(d[i_sel].Value)
    IN  /\ d[i_sel].Parameter = multiple_key[1]
        /\ Len(values) >= key_length
        /\ \A i \in 1..(key_length - 1) :
               Strip(values[i]) = Strip(multiple_key[i + 1])

\* i_line_lst of _find_line, as 1-based indices in ascending order
LineList(d, key_name) ==
    LET multiple_key == SplitWs(key_name)
        IsMulti(i) == MultiWordMatch(d, multiple_key, i)
        IsSingle(i) == d[i].Parameter = key_name
    IN  IF Len(multiple_key) > 1
        THEN SelectSeq(Indices(d), IsMulti)
        ELSE SelectSeq(Indices(d), IsSingle)

\* Mutant of _find_line: several matching lines, the first one is taken
FindLine_FirstOfSeveral(d, key_name) ==
    LET multiple_key == SplitWs(key_name)
        i_line_lst == LineList(d, key_name)
    IN  IF Len(i_line_lst) = 0
        THEN [exc |-> "none", i_line |-> -1, multi_word_lst |-> None]
        ELSE [exc |-> "none", i_line |-> i_line_lst[1] - 1,
              multi_word_lst |->
                  IF Len(multiple_key) > 1
                  THEN Some(<<d[i_line_lst[1]].Parameter>> \o
                            SubSeq(SplitWs(d[i_line_lst[1]].Value), 1,
                                   Len(multiple_key) - 1))
                  ELSE None]

\* _find_line(key_name): (i_line, multi_word_lst) or ValueError
FindLine(d, key_name) ==
    LET multiple_key == SplitWs(key_name)
        i_line_lst == LineList(d, key_name)
    IN  IF Len(i_line_lst) = 0
        THEN [exc |-> "none", i_line |-> -1, multi_word_lst |-> None]
        ELSE IF Len(i_line_lst) = 1
        THEN [exc |-> "none", i_line |-> i_line_lst[1] - 1,
              multi_word_lst |->
                  IF Len(multiple_key) > 1
                  THEN Some(<<d[i_line_lst[1]].Parameter>> \o
                            SubSeq(SplitWs(d[i_line_lst[1]].Value), 1,
                                   Len(multiple_key) - 1))
                  ELSE None]
        ELSE [exc |-> "ValueError", i_line |-> -1, multi_word_lst |-> None]

\* ------------------------------------------------------------------------
\* LammpsPotential.get
\* ------------------------------------------------------------------------
\* lines 142-145: the value with the key's words cut off
TrimValue(val, multi_word_lst) ==
    IF multi_word_lst # None
    THEN LET num_words == Len(multi_word_lst[1])
             pieces == SplitSp(val)
         IN  JoinSp(SubSeq(pieces, num_words, Len(pieces)))
    ELSE val

\* Mutant of get: "elif default_value:" for "elif default_value is not None:"
GetResult_TruthyDefault(d, parameter_name, default_value, lstrips) ==
    LET found == FindLine(d, parameter_name)
    IN  IF found.exc # "none"
        THEN [exc |-> found.exc, val |-> None, val_v |-> None]
        ELSE IF found.i_line > -1
        THEN LET val == TrimValue(d[found.i_line + 1].Value,
                                  found.multi_word_lst)
             IN  [exc |-> "none", val |-> Some(val),
                  val_v |-> Some(LiteralEval(val, lstrips))]
        ELSE IF default_value # None /\ default_value[1].v # <<>>
        THEN [exc |-> "none", val |-> None, val_v |-> default_value]
        ELSE [exc |-> "NameError", val |-> None, val_v |-> None]

\* get(parameter_name, default_value): val is the local of lines 141-145
\* (None when no line is read), val_v the object returned
GetResult(d, parameter_name, default_value, lstrips) ==
    LET found == FindLine(d, parameter_name)
    IN  IF found.exc # "none"
        THEN [exc |-> found.exc, val |-> None, val_v |-> None]
        ELSE IF found.i_line > -1
        THEN LET val == TrimValue(d[found.i_line + 1].Value,
                                  found.multi_word_lst)
             IN  [exc |-> "none", val |-> Some(val),
                  val_v |-> Some(LiteralEval(val, lstrips))]
        ELSE IF default_value # None
        THEN [exc |-> "none", val |-> None, val_v |-> default_value]
        ELSE [exc |-> "NameError", val |-> None, val_v |-> None]

\* ------------------------------------------------------------------------
\* Inputs of get
\* ------------------------------------------------------------------------
ParamNames == {<<"p">>, <<"q">>}
Words == {<<"a">>, <<"1">>}
Gaps == {<<SP>>, <<SP, SP>>}

RECURSIVE Layouts(_)
\* every way of writing n+1 words: a word, then n times a gap and a word
Layouts(n) ==
    IF n = 0 THEN Words
    ELSE {s \o g \o w : s \in Layouts(n - 1), g \in Gaps, w \in Words}

\* the values of at most n words, the empty value included
ValuesUpTo(n) == {<<>>} \cup UNION {Layouts(k - 1) : k \in 1..n}

RECURSIVE KeyTails(_)
KeyTails(n) ==
    IF n = 0 THEN {<<>>}
    ELSE {t \o <<SP>> \o w : t \in KeyTails(n - 1), w \in Words}

\* the keys of at most n words: a parameter name, then words of a value
KeysUpTo(n) ==
    {p \o t : p \in ParamNames, t \in UNION {KeyTails(k) : k \in 0..(n - 1)}}

Defaults == {None, Some(PyStr(<<"d">>)), Some(PyStr(<<>>))}

TablesOver(values) ==
    UNION {[1..n -> [Parameter : ParamNames, Value : values]] : n \in 0..MaxLines}

NoCall == [op |-> "none"]
NoRet == [exc |-> "none", val |-> None, val_v |-> None]

\* The parts of the system a study does not touch
NoSettings == fs = None /\ potfile = None
NoMurnaghan ==
    pc = [at |-> "none", i |-> 0] /\ murn = None /\ ref = None /\ calls = <<>>

\* ------------------------------------------------------------------------
\* get on a loaded potential: one call, then the caller takes the result
\* ------------------------------------------------------------------------
Get(keys) ==
    /\ call = NoCall
    /\ \E parameter_name \in keys, default_value \in Defaults,
          lstrips \in BOOLEAN :
           /\ call' = [op |-> "get", parameter_name |-> parameter_name,
                       default_value |-> default_value]
           /\ ret' = GetResult(dataset, parameter_name, default_value, lstrips)
    /\ UNCHANGED <<dataset, df, settingsVars, murnVars>>

Return ==
    /\ call # NoCall
    /\ call' = NoCall
    /\ ret' = NoRet
    /\ UNCHANGED <<dataset, df, settingsVars, murnVars>>

\* Every table of values of one or two words, every key of MaxKeyWords words
InitGet ==
    /\ dataset \in TablesOver(ValuesUpTo(2))
    /\ df = None
    /\ call = NoCall
    /\ ret = NoRet
    /\ NoSettings
    /\ NoMurnaghan

NextGet == Get(KeysUpTo(MaxKeyWords)) \/ Return

SpecGet == InitGet /\ [][NextGet]_vars

\* Tables of values of MaxWords words and keys as long
InitMultiWord ==
    /\ dataset \in TablesOver(ValuesUpTo(MaxWords))
    /\ df = None
    /\ call = NoCall
    /\ ret = NoRet
    /\ NoSettings
    /\ NoMurnaghan

NextMultiWord == Get(KeysUpTo(MaxWords)) \/ Return

SpecMultiWord == InitMultiWord /\ [][NextMultiWord]_vars

\* ------------------------------------------------------------------------
\* LammpsPotential.df (setter) and GenericParameters.load_string
\* ------------------------------------------------------------------------
NL == "\n"

RECURSIVE JoinEmpty(_)
\* "".join(strings)
JoinEmpty(strings) ==
    IF Len(strings) = 0 THEN <<>> ELSE strings[1] \o JoinEmpty(Tail(strings))

RECURSIVE SplitNl(_)
\* s.split("\n")
SplitNl(s) ==
    IF \A i \in 1..Len(s) : s[i] # NL
    THEN <<s>>
    ELSE LET k == CHOOSE i \in 1..Len(s) :
                      s[i] = NL /\ \A j \in 1..(i - 1) : s[j] # NL
         IN  <<SubSeq(s, 1, k - 1)>> \o SplitNl(SubSeq(s, k + 1, Len(s)))

\* One line of an input file as a table line: the text before the first
\* blank is the parameter, the text after it the value; a line without a
\* blank is a parameter without value; a blank line is an empty entry.
ParseLine(line) ==
    LET body == Strip(line)
    IN  IF \A i \in 1..Len(body) : body[i] # SP
        THEN [Parameter |-> body, Value |-> <<>>]
        ELSE LET k == CHOOSE i \in 1..Len(body) :
                          body[i] = SP /\ \A j \in 1..(i - 1) : body[j] # SP
             IN  [Parameter |-> SubSeq(body, 1, k - 1),
                  Value |-> SubSeq(body, k + 1, Len(body))]

\* load_string(input_str): the table read from the lines of input_str
LoadString(input_str) ==
    LET lines == SplitNl(input_str)
    IN  [i \in 1..Len(lines) |-> ParseLine(lines[i])]

\* Mutant of the setter: the Config of the last row is loaded
DfSetter_LastRow(d, new_dataframe) ==
    IF Len(new_dataframe) = 0
    THEN [df |-> Some(new_dataframe), dataset |-> d, exc |-> "ValueError"]
    ELSE [df |-> Some(new_dataframe),
          dataset |->
              LoadString(JoinEmpty(new_dataframe[Len(new_dataframe)].Config)),
          exc |-> "none"]

\* df.setter on the table d: _df is assigned first; list(...)[0] raises
\* IndexError on a dataframe without rows before load_string is called, and
\* the setter turns it into ValueError
DfSetter(d, new_dataframe) ==
    IF Len(new_dataframe) = 0
    THEN [df |-> Some(new_dataframe), dataset |-> d, exc |-> "ValueError"]
    ELSE [df |-> Some(new_dataframe),
          dataset |-> LoadString(JoinEmpty(new_dataframe[1].Config)),
          exc |-> "none"]

MaxRows == 2         \* rows of a dataframe

\* Config cells: lists of pieces of an input file
ConfigStrings ==
    {<<"p", SP, "a", NL>>,
     <<"q", SP, "1", SP, SP, "a", NL, "p", NL>>}

Configs ==
    {<<>>} \cup {<<x>> : x \in ConfigStrings}
           \cup {<<x, y>> : x, y \in ConfigStrings}

Dataframes == UNION {[1..n -> [Config : Configs]] : n \in 0..MaxRows}

SetDf ==
    \E new_dataframe \in Dataframes :
        LET r == DfSetter(dataset, new_dataframe)
        IN  /\ df' = r.df
            /\ dataset' = r.dataset
            /\ call' = [op |-> "df", new_dataframe |-> new_dataframe]
            /\ ret' = [exc |-> r.exc, val |-> None, val_v |-> None]
            /\ UNCHANGED <<settingsVars, murnVars>>

\* A potential object holding no table or a table of one line
InitDf ==
    /\ dataset \in {t \in TablesOver(ValuesUpTo(2)) : Len(t) <= 1}
    /\ df = None
    /\ call = NoCall
    /\ ret = NoRet
    /\ NoSettings
    /\ NoMurnaghan

NextDf == SetDf

SpecDf == InitDf /\ [][NextDf]_vars

\* ------------------------------------------------------------------------
\* LammpsPotential.files
\* ------------------------------------------------------------------------
\* A path is a sequence of names and "/" separators; '' is the empty path.
\* os.path.isabs(path)
IsAbs(path) == Len(path) > 0 /\ path[1] = "/"

IsRel(path) == ~IsAbs(path)

\* os.path.join(a, b) for a relative b
PathJoin(a, b) == a \o <<"/">> \o b

\* os.path.join(resource_path, "lammps", "potentials")
PotentialsDir(resource_path) ==
    resource_path \o <<"/", "lammps", "/", "potentials">>

\* lines 80-85: the directory searched for one resource path
SearchDir(f, resource_path) ==
    IF PotentialsDir(resource_path) \in f.exists
    THEN PotentialsDir(resource_path)
    ELSE resource_path

RECURSIVE Locate(_, _, _)
\* lines 79-88: the paths appended for one relative name, none or one
Locate(f, path, resource_paths) ==
    IF Len(resource_paths) = 0 THEN <<>>
    ELSE IF PathJoin(SearchDir(f, resource_paths[1]), path) \in f.exists
    THEN <<PathJoin(SearchDir(f, resource_paths[1]), path)>>
    ELSE Locate(f, path, Tail(resource_paths))

RECURSIVE LocateAll(_, _)
\* lines 78-88: the loop over relative_file_paths
LocateAll(f, relative_file_paths) ==
    IF Len(relative_file_paths) = 0 THEN <<>>
    ELSE Locate(f, relative_file_paths[1], f.resource_paths)
             \o LocateAll(f, Tail(relative_file_paths))

\* Mutant of files: the list is returned without the length check
FilesResult_NoLengthCheck(dframe, f) ==
    LET names == dframe[1].Filename
    IN  IF Len(names) > 0 /\ names # <<<<>>>>
        THEN [exc |-> "none",
              val |-> Some(SelectSeq(names, IsAbs)
                               \o LocateAll(f, SelectSeq(names, IsRel))),
              val_v |-> None]
        ELSE NoRet

\* files: the list of paths, ValueError, or None
FilesResult(dframe, f) ==
    LET names == dframe[1].Filename
    IN  IF Len(names) > 0 /\ names # <<<<>>>>
        THEN LET absolute_file_paths ==
                     SelectSeq(names, IsAbs)
                         \o LocateAll(f, SelectSeq(names, IsRel))
             IN  IF Len(absolute_file_paths) # Len(names)
                 THEN [exc |-> "ValueError", val |-> None, val_v |-> None]
                 ELSE [exc |-> "none", val |-> Some(absolute_file_paths),
                       val_v |-> None]
        ELSE NoRet

MaxFiles == 2        \* names in a Filename cell

R1 == <<"/", "r1">>
R2 == <<"/", "r2">>

ResourcePathLists == {<<>>, <<R1>>, <<R1, R2>>, <<R2, R1>>}

\* Names listed in Filename: an absolute one, two relative ones and ''
FileNames == {<<"/", "x">>, <<"f">>, <<"g">>, <<>>}

FilenameCells == UNION {[1..n -> FileNames] : n \in 0..MaxFiles}

\* What may be on disk: the resource paths, their potentials directories and
\* the file f in either; g is nowhere
DiskEntries ==
    UNION {{r, PotentialsDir(r), PathJoin(r, <<"f">>),
            PathJoin(PotentialsDir(r), <<"f">>)} : r \in {R1, R2}}

DiskDirs == UNION {{r, PotentialsDir(r)} : r \in {R1, R2}}

\* a set of disk entries in which everything lies in an existing directory
Consistent(entries) ==
    \A r \in {R1, R2} :
        /\ PotentialsDir(r) \in entries => r \in entries
        /\ PathJoin(r, <<"f">>) \in entries => r \in entries
        /\ PathJoin(PotentialsDir(r), <<"f">>) \in entries =>
               PotentialsDir(r) \in entries

\* os.path.exists: the entries, and d + "/" for every directory d
Disk(entries) == entries \cup {PathJoin(d, <<>>) : d \in entries \cap DiskDirs}

FilesCall ==
    /\ call = NoCall
    /\ call' = [op |-> "files"]
    /\ ret' = FilesResult(df[1], fs)
    /\ UNCHANGED <<dataset, df, settingsVars, murnVars>>

ReturnFiles ==
    /\ call # NoCall
    /\ call' = NoCall
    /\ ret' = NoRet
    /\ UNCHANGED <<dataset, df, settingsVars, murnVars>>

\* A potential of one row, or of two rows the second of which lists g
InitFiles ==
    /\ dataset = <<>>
    /\ \E cell \in FilenameCells :
           df \in {Some(<<[Filename |-> cell]>>),
                   Some(<<[Filename |-> cell], [Filename |-> <<<<"g">>>>]>>)}
    /\ call = NoCall
    /\ ret = NoRet
    /\ \E rps \in ResourcePathLists :
       \E entries \in {e \in SUBSET DiskEntries : Consistent(e)} :
           fs = [resource_paths |-> rps, exists |-> Disk(entries)]
    /\ potfile = None
    /\ NoMurnaghan

NextFiles == FilesCall \/ ReturnFiles

SpecFiles == InitFiles /\ [][NextFiles]_vars

\* ------------------------------------------------------------------------
\* LammpsPotentialFile.find_default
\* ------------------------------------------------------------------------
Atoms == {"Al", "Fe"}

\* the order sorted() puts the element names in
AtomRank(a) == IF a = "Al" THEN 1 ELSE 2

RECURSIVE Sorted(_)
\* sorted(merged_lst)
Sorted(atoms) ==
    IF atoms = {} THEN <<>>
    ELSE LET least == CHOOSE a \in atoms :
                          \A b \in atoms : AtomRank(a) <= AtomRank(b)
         IN  <<least>> \o Sorted(atoms \ {least})

RECURSIVE JoinUnderscore(_)
\* "_".join(names)
JoinUnderscore(names) ==
    IF Len(names) = 0 THEN <<>>
    ELSE IF Len(names) = 1 THEN <<names[1]>>
    ELSE <<names[1], "_">> \o JoinUnderscore(Tail(names))

\* set(a list)
SetOf(lst) == {lst[i] : i \in 1..Len(lst)}

\* lines 254-261: the element as a set, for the three supported types.  An
\* element carries its type and, in v, the names it holds: the one name that
\* a str is, the items of a list, the members of a set
ElementAsSet(element) ==
    IF element.type = "set" THEN SetOf(element.v)
    ELSE IF element.type = "list" THEN SetOf(element.v)
    ELSE {element.v[1]}

\* lines 263-268: the rows of the default table named like the row of the
\* merged atoms; .loc raises KeyError when no row has that index
DefaultRows(pf, elements) ==
    LET table == pf.default_df[1]
        merged == SetOf(pf.selected_atoms) \cup elements
        atoms_str == JoinUnderscore(Sorted(merged))
        hits == {i \in 1..Len(table) : table[i].index = atoms_str}
    IN  IF hits = {}
        THEN [exc |-> "KeyError", val |-> None, val_v |-> None]
        ELSE LET name == table[CHOOSE i \in hits : TRUE].Name
                 IsNamed(row) == row.Name = name
             IN  [exc |-> "none", val |-> Some(SelectSeq(table, IsNamed)),
                  val_v |-> None]

\* Mutant of find_default: the default table is looked at before the type
FindDefault_TableFirst(pf, element) ==
    IF pf.default_df = None
    THEN NoRet
    ELSE IF element.type \notin {"set", "list", "str"}
    THEN [exc |-> "TypeError", val |-> None, val_v |-> None]
    ELSE DefaultRows(pf, ElementAsSet(element))

\* find_default(element)
FindDefault(pf, element) ==
    IF element.type \notin {"set", "list", "str"}
    THEN [exc |-> "TypeError", val |-> None, val_v |-> None]
    ELSE IF pf.default_df # None
    THEN DefaultRows(pf, ElementAsSet(element))
    ELSE NoRet

MaxElements == 2     \* elements of a list passed to find_default

Elements ==
    {[type |-> "str", v |-> <<a>>] : a \in Atoms}
        \cup {[type |-> "set", v |-> Sorted(x)] : x \in SUBSET Atoms}
        \cup {[type |-> "list", v |-> l] :
                  l \in UNION {[1..n -> Atoms] : n \in 0..MaxElements}}
        \cup {[type |-> "tuple", v |-> <<a>>] : a \in Atoms}
        \cup {[type |-> "frozenset", v |-> <<a>>] : a \in Atoms}
        \cup {[type |-> "NoneType", v |-> <<>>]}

DefaultTable ==
    <<[index |-> <<"Al">>, Name |-> "potA"],
      [index |-> <<"Al", "_", "Fe">>, Name |-> "potB"],
      [index |-> <<"Fe">>, Name |-> "potA"]>>

DefaultTables == {None, Some(<<>>), Some(DefaultTable)}

SelectedAtoms == {<<>>, <<"Al">>, <<"Fe">>}

FindDefaultCall ==
    /\ call = NoCall
    /\ \E element \in Elements :
           /\ call' = [op |-> "find_default", element |-> element]
           /\ ret' = FindDefault(potfile, element)
    /\ UNCHANGED <<dataset, df, settingsVars, murnVars>>

ReturnDefault ==
    /\ call # NoCall
    /\ call' = NoCall
    /\ ret' = NoRet
    /\ UNCHANGED <<dataset, df, settingsVars, murnVars>>

InitDefault ==
    /\ dataset = <<>>
    /\ df = None
    /\ call = NoCall
    /\ ret = NoRet
    /\ fs = None
    /\ \E atoms \in SelectedAtoms, table \in DefaultTables :
           potfile = [selected_atoms |-> atoms, default_df |-> table]
    /\ NoMurnaghan

NextDefault == FindDefaultCall \/ ReturnDefault

SpecDefault == InitDefault /\ [][NextDefault]_vars

\* ------------------------------------------------------------------------
\* MurnaghanInt (murninterface.py)
\* ------------------------------------------------------------------------
MaxStrains == 2      \* strains in the job generator's parameter list

Strains == {90, 110}
Volumes == {1, 2}
Energies == {5, 6}

Event(op, arg) == [op |-> op, arg |-> arg]

\* Mutant of the loop: the last strain of the parameter list is left out
LoopFinished_SkipsLast(parameter_list, i) == i >= Len(parameter_list) - 1

\* line 22: the for loop has gone through the parameter list
LoopFinished(parameter_list, i) == i = Len(parameter_list)

\* lines 19-21: ref_job_initialize (lines 30-34), then the master id and the
\* interactive run mode of the reference job
Start ==
    /\ pc.at = "run_if_interactive"
    /\ murn' = [murn EXCEPT !.job_list = <<>>]
    /\ ref' = [ref EXCEPT !.master_id = murn.job_id, !.interactive = TRUE]
    /\ pc' = [at |-> "loop", i |-> 0]
    /\ UNCHANGED <<calls, potentialVars, settingsVars>>

\* line 23: modify_job(job=self.ref_job, parameter=strain)
ModifyJob ==
    /\ pc.at = "loop"
    /\ ~LoopFinished(murn.parameter_list, pc.i)
    /\ LET strain == murn.parameter_list[pc.i + 1]
       IN  /\ ref' = [ref EXCEPT !.parameter = Some(strain)]
           /\ calls' = Append(calls, Event("modify_job", Some(strain)))
    /\ pc' = [pc EXCEPT !.at = "run"]
    /\ UNCHANGED <<murn, potentialVars, settingsVars>>

\* line 24: self.ref_job.run(); the engine adds one step, with its volume
\* and energy, to the output of the reference job
RunRefJob ==
    /\ pc.at = "run"
    /\ \E volume \in Volumes, energy \in Energies :
           ref' = [ref EXCEPT !.runs = @ + 1,
                              !.volume = Append(@, volume),
                              !.energy_tot = Append(@, energy)]
    /\ calls' = Append(calls, Event("ref_job.run", ref.parameter))
    /\ pc' = [at |-> "loop", i |-> pc.i + 1]
    /\ UNCHANGED <<murn, potentialVars, settingsVars>>

\* line 26: self.ref_job.interactive_close()
InteractiveClose ==
    /\ pc.at = "loop"
    /\ LoopFinished(murn.parameter_list, pc.i)
    /\ ref' = [ref EXCEPT !.closed = TRUE]
    /\ calls' = Append(calls, Event("interactive_close", None))
    /\ pc' = [pc EXCEPT !.at = "collect_status"]
    /\ UNCHANGED <<murn, potentialVars, settingsVars>>

\* line 27: self.status.collect = True
StatusCollect ==
    /\ pc.at = "collect_status"
    /\ murn' = [murn EXCEPT !.status = "collect"]
    /\ calls' = Append(calls, Event("status.collect", None))
    /\ pc' = [pc EXCEPT !.at = "self_run"]
    /\ UNCHANGED <<ref, potentialVars, settingsVars>>

\* line 28: self.run(), which collects the output of a job in status collect
SelfRun ==
    /\ pc.at = "self_run"
    /\ calls' = Append(calls, Event("self.run", None))
    /\ pc' = [pc EXCEPT !.at = "collect_output"]
    /\ UNCHANGED <<murn, ref, potentialVars, settingsVars>>

\* np.argsort(vol_lst), 1-based: the index orders that sort vol_lst; the
\* default sort is not stable, so equal volumes come in either order
ArgSorts(vol_lst) ==
    {arg_lst \in [1..Len(vol_lst) -> 1..Len(vol_lst)] :
        /\ \A i, j \in 1..Len(vol_lst) : arg_lst[i] = arg_lst[j] => i = j
        /\ \A i \in 1..(Len(vol_lst) - 1) :
               vol_lst[arg_lst[i]] <= vol_lst[arg_lst[i + 1]]}

\* lst[arg_lst]
Take(lst, arg_lst) == [i \in 1..Len(arg_lst) |-> lst[arg_lst[i]]]

\* Mutant of collect_output: the energies are stored as the child lists them
SortedOutput_EnergyUnsorted(vol_lst, erg_lst, arg_lst) ==
    [volume |-> Take(vol_lst, arg_lst), energy |-> erg_lst]

\* lines 43-44: self._output["volume"] and self._output["energy"]
SortedOutput(vol_lst, erg_lst, arg_lst) ==
    [volume |-> Take(vol_lst, arg_lst), energy |-> Take(erg_lst, arg_lst)]

\* lines 36-52: collect_output
CollectOutput ==
    /\ pc.at = "collect_output"
    /\ IF murn.interactive
       THEN \E arg_lst \in ArgSorts(ref.volume) :
                LET out == SortedOutput(ref.volume, ref.energy_tot, arg_lst)
                IN  /\ murn' = [murn EXCEPT
                            !.output = Some(out),
                            !.hdf_output = <<[key |-> "volume", val |-> out.volume],
                                             [key |-> "energy", val |-> out.energy]>>]
                    /\ calls' = calls \o <<Event("hdf5_out", Some("volume")),
                                           Event("hdf5_out", Some("energy")),
                                           Event("fit_murnaghan", None)>>
       ELSE /\ calls' = Append(calls, Event("Murnaghan.collect_output", None))
            /\ UNCHANGED murn
    /\ pc' = [pc EXCEPT !.at = "done"]
    /\ UNCHANGED <<ref, potentialVars, settingsVars>>

ParameterLists == UNION {[1..n -> Strains] : n \in 0..MaxStrains}

\* An interactive job about to enter run_if_interactive, or a job in another
\* run mode whose children are finished and whose output is to be collected
InitMurn ==
    /\ dataset = <<>>
    /\ df = None
    /\ call = NoCall
    /\ ret = NoRet
    /\ NoSettings
    /\ \E parameter_list \in ParameterLists, interactive \in BOOLEAN,
          job_id \in {None, Some(1)}, job_list \in {<<>>, <<"ref_job">>} :
           /\ murn = [parameter_list |-> parameter_list,
                      interactive |-> interactive,
                      job_id |-> job_id,
                      job_list |-> job_list,
                      status |-> IF interactive THEN "running" ELSE "collect",
                      output |-> None,
                      hdf_output |-> <<>>]
           /\ pc = [at |-> IF interactive THEN "run_if_interactive"
                           ELSE "collect_output",
                    i |-> 0]
    /\ ref = [master_id |-> None, interactive |-> FALSE, parameter |-> None,
              runs |-> 0, closed |-> FALSE, volume |-> <<>>,
              energy_tot |-> <<>>]
    /\ calls = <<>>

NextMurn ==
    \/ Start
    \/ ModifyJob
    \/ RunRefJob
    \/ InteractiveClose
    \/ StatusCollect
    \/ SelfRun
    \/ CollectOutput

SpecMurn == InitMurn /\ [][NextMurn]_vars

\* ------------------------------------------------------------------------
\* Claims about get and _find_line
\* ------------------------------------------------------------------------
\* The lines (1-based) a key matches: a key of one word matches the lines
\* whose parameter is the key; a key of n >= 2 words matches the lines whose
\* parameter is its first word and whose value has at least n words, the
\* first n-1 of them being the key's other words.
Matching(d, key) ==
    LET kw == SplitWs(key)
    IN  {i \in 1..Len(d) :
            IF Len(kw) >= 2
            THEN /\ d[i].Parameter = kw[1]
                 /\ Len(SplitWs(d[i].Value)) >= Len(kw)
                 /\ SubSeq(SplitWs(d[i].Value), 1, Len(kw) - 1) = Tail(kw)
            ELSE d[i].Parameter = key}

TheMatch(d, key) == CHOOSE i \in Matching(d, key) : TRUE

KeyLength(key) == Len(SplitWs(key))

\* The part of v that follows its k-th blank
AfterBlank(v, k) ==
    LET pos == CHOOSE i \in 1..Len(v) :
                   v[i] = SP /\ Cardinality({j \in 1..i : v[j] = SP}) = k
    IN  SubSeq(v, pos + 1, Len(v))

\* v as get returns it: the string itself or the integer it denotes
Returned(v) == {Some(PyStr(v)), Some(PyInt(Strip(v)))}

IsSuffix(t, v) ==
    Len(t) <= Len(v) /\ SubSeq(v, Len(v) - Len(t) + 1, Len(v)) = t

GetCalled == call.op = "get"

NoLineCases ==
    Matching(dataset, call.parameter_name) = {} =>
        IF call.default_value # None
        THEN ret = [exc |-> "none", val |-> None, val_v |-> call.default_value]
        ELSE ret = [exc |-> "NameError", val |-> None, val_v |-> None]

\* C1 as stated: without a matching line get returns the default, or raises
\* NameError when the default is None; with exactly one matching line the
\* stored value of that line is returned (as it is or as the literal it
\* denotes), never the default.
C1_StoredValueReturned ==
    GetCalled =>
        /\ NoLineCases
        /\ Cardinality(Matching(dataset, call.parameter_name)) = 1 =>
               LET v == dataset[TheMatch(dataset, call.parameter_name)].Value
               IN  /\ ret.exc = "none"
                   /\ ret.val = Some(v)
                   /\ ret.val_v \in Returned(v)

\* C1 as amended: without a matching line get returns the default, or raises
\* NameError when the default is None; with exactly one matching line get
\* returns, never the default, but the stored value of that line for a key of
\* one word and, for a key of n >= 2 words, the part of the stored value that
\* follows its (n-1)-th blank (as it is or as the literal it denotes).
C1_ValueOrDefault ==
    GetCalled =>
        /\ NoLineCases
        /\ Cardinality(Matching(dataset, call.parameter_name)) = 1 =>
               LET stored == dataset[TheMatch(dataset, call.parameter_name)].Value
                   n == KeyLength(call.parameter_name)
                   v == IF n >= 2 THEN AfterBlank(stored, n - 1) ELSE stored
               IN  /\ ret.exc = "none"
                   /\ ret.val = Some(v)
                   /\ ret.val_v \in Returned(v)

C1_Witness ==
    /\ GetCalled
    /\ Cardinality(Matching(dataset, call.parameter_name)) = 1
    /\ KeyLength(call.parameter_name) >= 2
    /\ Len(dataset) = 2
    /\ call.default_value = Some(PyStr(<<"d">>))
    /\ ret.val_v \notin {None, call.default_value}

\* C2: when two or more lines match the key, _find_line raises ValueError and
\* get raises it whatever the default: neither a value nor the default is
\* returned.
C2_AmbiguousKeyRaises ==
    (GetCalled /\ Cardinality(Matching(dataset, call.parameter_name)) >= 2) =>
        /\ FindLine(dataset, call.parameter_name).exc = "ValueError"
        /\ ret = [exc |-> "ValueError", val |-> None, val_v |-> None]

C2_Witness ==
    /\ GetCalled
    /\ Cardinality(Matching(dataset, call.parameter_name)) >= 2
    /\ KeyLength(call.parameter_name) >= 2
    /\ call.default_value # None
    /\ dataset[1].Value # dataset[2].Value
    /\ ret.exc = "ValueError"

\* C6: for a key of n >= 2 words that matches exactly one line, get returns
\* (before literal conversion) the stored value without its n-1 leading
\* words and with the rest unchanged, whatever the spacing of the value:
\* what is returned is the end of the stored value and its words are the
\* stored words from the n-th on.
C6_LeadingWordsRemoved ==
    (/\ GetCalled
     /\ KeyLength(call.parameter_name) >= 2
     /\ Cardinality(Matching(dataset, call.parameter_name)) = 1) =>
        LET stored == dataset[TheMatch(dataset, call.parameter_name)].Value
            n == KeyLength(call.parameter_name)
            words == SplitWs(stored)
        IN  /\ ret.exc = "none"
            /\ ret.val # None
            /\ IsSuffix(ret.val[1], stored)
            /\ SplitWs(ret.val[1]) = SubSeq(words, n, Len(words))

\* ------------------------------------------------------------------------
\* Claims about the df setter
\* ------------------------------------------------------------------------
\* C7: assigning a dataframe without rows raises ValueError and leaves the
\* parameter table as it was; assigning a dataframe with rows loads the
\* table from the Config of its first row, whatever the other rows hold.
C7_FirstRowOrValueError ==
    [][call'.op = "df" =>
          IF Len(call'.new_dataframe) = 0
          THEN ret'.exc = "ValueError" /\ dataset' = dataset
          ELSE /\ ret'.exc = "none"
               /\ dataset' =
                      LoadString(JoinEmpty(call'.new_dataframe[1].Config))]_vars

C7_Witness ==
    /\ call.op = "df"
    /\ Len(call.new_dataframe) = 2
    /\ LoadString(JoinEmpty(call.new_dataframe[2].Config)) # dataset
    /\ Len(dataset) = 4
    /\ ret.exc = "none"

\* ------------------------------------------------------------------------
\* Claims about files
\* ------------------------------------------------------------------------
ListedNames == df[1][1].Filename

Injective(pi) == \A i, j \in DOMAIN pi : pi[i] = pi[j] => i = j

\* paths holds exactly one path per listed name: an absolute name itself, a
\* relative name as an existing path in one of the directories dirs
OnePathPerName(paths, names, dirs) ==
    /\ Len(paths) = Len(names)
    /\ \E pi \in [1..Len(names) -> 1..Len(names)] :
           /\ Injective(pi)
           /\ \A i \in 1..Len(names) :
                  IF IsAbs(names[i])
                  THEN paths[pi[i]] = names[i]
                  ELSE /\ paths[pi[i]] \in fs.exists
                       /\ IsAbs(paths[pi[i]])
                       /\ \E d \in dirs : paths[pi[i]] = PathJoin(d, names[i])

ResourcePaths == {fs.resource_paths[i] : i \in 1..Len(fs.resource_paths)}

\* a resource path and its lammps/potentials directory
DirsUnderResourcePaths ==
    ResourcePaths \cup {PotentialsDir(r) : r \in ResourcePaths}

\* the one directory files searches per resource path: its lammps/potentials
\* directory when that exists, the resource path itself otherwise
SearchedDirs ==
    {IF PotentialsDir(r) \in fs.exists THEN PotentialsDir(r) ELSE r :
         r \in ResourcePaths}

FilesOutcome(dirs) ==
    call.op = "files" =>
        IF Len(ListedNames) > 0 /\ ListedNames # <<<<>>>>
        THEN \/ /\ ret.exc = "none"
                /\ ret.val # None
                /\ OnePathPerName(ret.val[1], ListedNames, dirs)
             \/ /\ ret.exc = "ValueError"
                /\ \E i \in 1..Len(ListedNames) :
                       /\ IsRel(ListedNames[i])
                       /\ \A d \in dirs :
                              PathJoin(d, ListedNames[i]) \notin fs.exists
        ELSE ret = NoRet

\* C3 as stated: for a Filename list that is neither empty nor [''], files
\* returns one absolute path per listed name (absolute names as given,
\* relative names as existing paths under a resource path) or raises
\* ValueError when a relative name exists under no resource path, neither in
\* the path itself nor in its lammps/potentials directory; for an empty list
\* or [''] it returns None.
C3_ListOrValueError == FilesOutcome(DirsUnderResourcePaths)

\* C3 as amended: ... or raises ValueError when a relative name does not
\* exist in the directory searched for any resource path, which is the
\* path's lammps/potentials directory when that directory exists and the
\* resource path itself otherwise.
C3_ListOrValueErrorSearched == FilesOutcome(SearchedDirs)

\* ValueError although the relative name lies directly in a resource path
C3_Witness ==
    /\ call.op = "files"
    /\ Len(ListedNames) = 2
    /\ IsAbs(ListedNames[1])
    /\ IsRel(ListedNames[2])
    /\ ret.exc = "ValueError"
    /\ \E r \in ResourcePaths : PathJoin(r, ListedNames[2]) \in fs.exists

\* ------------------------------------------------------------------------
\* Claims about find_default
\* ------------------------------------------------------------------------
\* the set an accepted element stands for
StandsFor(element) ==
    IF element.type = "str" THEN {element.v[1]}
    ELSE {a \in Atoms : \E i \in 1..Len(element.v) : element.v[i] = a}

\* what find_default gives for a set of elements when a default table is set
ForSet(elements) ==
    LET table == potfile.default_df[1]
        wanted == elements \cup {a \in Atoms :
                      \E i \in 1..Len(potfile.selected_atoms) :
                          potfile.selected_atoms[i] = a}
        index == IF wanted = {"Al", "Fe"} THEN <<"Al", "_", "Fe">>
                 ELSE IF wanted = {} THEN <<>>
                 ELSE <<CHOOSE a \in wanted : TRUE>>
        rows == {i \in 1..Len(table) : table[i].index = index}
    IN  IF rows = {}
        THEN [exc |-> "KeyError", none |-> FALSE, rows |-> {}]
        ELSE [exc |-> "none", none |-> FALSE,
              rows |-> {j \in 1..Len(table) :
                           \E i \in rows : table[j].Name = table[i].Name}]

\* what the call gave: an exception, None, or rows of the default table
Outcome ==
    [exc |-> ret.exc,
     none |-> ret.exc = "none" /\ ret.val = None,
     rows |-> IF ret.val = None THEN {}
              ELSE {j \in 1..Len(potfile.default_df[1]) :
                       \E i \in 1..Len(ret.val[1]) :
                           ret.val[1][i] = potfile.default_df[1][j]}]

\* C4: find_default raises TypeError for an element that is no str, list or
\* set, with or without a default table; for a str, a list or a set without
\* default table it returns None; with a default table the result is the one
\* of the set the element stands for (a str for the set of that one element,
\* a list for the set of its elements).
C4_TypeCheckedFirst ==
    call.op = "find_default" =>
        IF call.element.type \notin {"str", "list", "set"}
        THEN ret = [exc |-> "TypeError", val |-> None, val_v |-> None]
        ELSE IF potfile.default_df = None
        THEN ret = NoRet
        ELSE Outcome = ForSet(StandsFor(call.element))

\* an unsupported element and no default table
C4_Witness ==
    /\ call.op = "find_default"
    /\ call.element.type = "tuple"
    /\ potfile.default_df = None
    /\ ret.exc = "TypeError"

\* ------------------------------------------------------------------------
\* Claims about MurnaghanInt
\* ------------------------------------------------------------------------
RECURSIVE DriveCalls(_)
\* per strain: modify_job with it, then a run of the job so modified
DriveCalls(strains) ==
    IF Len(strains) = 0 THEN <<>>
    ELSE <<Event("modify_job", Some(strains[1])),
           Event("ref_job.run", Some(strains[1]))>> \o DriveCalls(Tail(strains))

\* everything run_if_interactive does, in order
InteractiveCalls(strains) ==
    DriveCalls(strains) \o <<Event("interactive_close", None),
                             Event("status.collect", None),
                             Event("self.run", None)>>

IsPrefix(a, b) == Len(a) <= Len(b) /\ SubSeq(b, 1, Len(a)) = a

CountOf(op) == Cardinality({k \in 1..Len(calls) : calls[k].op = op})

\* C5: for a parameter list of n strains run_if_interactive runs the
\* reference job n times, the i-th run after modify_job with the i-th strain
\* and before modify_job with the next; interactive_close comes once, after
\* the last run; status.collect and self.run() come after it, in that order;
\* with an empty list there is no run and the last three still happen.
C5_DrivenInOrder ==
    murn.interactive =>
        LET plan == InteractiveCalls(murn.parameter_list)
        IN  /\ IsPrefix(calls, plan) \/ IsPrefix(plan, calls)
            /\ pc.at \in {"collect_output", "done"} =>
                   /\ IsPrefix(plan, calls)
                   /\ CountOf("ref_job.run") = Len(murn.parameter_list)
                   /\ ref.runs = Len(murn.parameter_list)
                   /\ CountOf("interactive_close") = 1
                   /\ ref.closed /\ murn.status = "collect"
            /\ ref.closed => ref.runs = Len(murn.parameter_list)
            /\ murn.status = "collect" => ref.closed

C5_Witness ==
    /\ murn.interactive
    /\ pc.at = "done"
    /\ murn.parameter_list = <<110, 90>>
    /\ ref.runs = 2

\* C8: in interactive mode collect_output stores the child's volumes in
\* ascending order and its energies permuted alike, so that the pairs
\* (volume, energy) stored are the pairs of the child's steps, each as often;
\* both arrays are written to the output group before fit_murnaghan; in
\* another run mode nothing is stored or written and the parent's
\* collect_output is called.
C8_SortedPairs ==
    pc.at = "done" =>
        IF murn.interactive
        THEN LET n == Len(ref.volume)
                 out == murn.output[1]
                 tail == SubSeq(calls, Len(calls) - 2, Len(calls))
             IN  /\ murn.output # None
                 /\ Len(out.volume) = n /\ Len(out.energy) = n
                 /\ \A i \in 1..(n - 1) : out.volume[i] <= out.volume[i + 1]
                 /\ \E pi \in [1..n -> 1..n] :
                        /\ \A i, j \in 1..n : pi[i] = pi[j] => i = j
                        /\ \A i \in 1..n :
                               /\ out.volume[i] = ref.volume[pi[i]]
                               /\ out.energy[i] = ref.energy_tot[pi[i]]
                 /\ murn.hdf_output = <<[key |-> "volume", val |-> out.volume],
                                        [key |-> "energy", val |-> out.energy]>>
                 /\ tail = <<Event("hdf5_out", Some("volume")),
                             Event("hdf5_out", Some("energy")),
                             Event("fit_murnaghan", None)>>
        ELSE /\ murn.output = None
             /\ murn.hdf_output = <<>>
             /\ calls = <<Event("Murnaghan.collect_output", None)>>

\* two steps of falling volume and different energies, stored in rising order
C8_Witness ==
    /\ pc.at = "done"
    /\ murn.interactive
    /\ ref.volume = <<2, 1>>
    /\ ref.energy_tot = <<5, 6>>
    /\ murn.output = Some([volume |-> <<1, 2>>, energy |-> <<6, 5>>])

====
